---- MODULE Spec2Model ----
(***************************************************************************)
(* Bank statement import and reconciliation of mastdeals4/anzen.           *)
(*                                                                         *)
(* Spec     : the reconciliation component (BankReconciliationEnhanced)    *)
(*            run by several operators against one shared store.  Every    *)
(*            operation addresses one bank_statement_lines row by its id   *)
(*            (.eq('id', ...)) and rows do not interact, so the model      *)
(*            follows one statement line.                                  *)
(* LiveSpec : Spec with the scheduling fairness of the handlers.           *)
(* ImportSpec : the statement import, by the parse-bca-statement function  *)
(*            (PDF) and by handleExcelUpload (spreadsheet), run by         *)
(*            several requests against the shared store.                   *)
(* SeqSpec  : the numbering of petty cash transactions and receipt         *)
(*            vouchers (PettyCashManager, ReceiptVoucherManager), by       *)
(*            several sessions submitting in the same month.               *)
(* AmountSpec : parseAmount of the parse-bca-statement function, applied   *)
(*            to the strings of digits, dots and commas up to a length.    *)
(* ParseSpec : parseBCAStatement of the parse-bca-statement function, one  *)
(*            step per iteration of its scan loop, applied to statement    *)
(*            texts made of a few lines.                                   *)
(* LineSpec : a statement line's row, written by the imports while the      *)
(*            component rests or by the component while no import runs.    *)
(* UploadSpec : the upload button of the component, its uploading flag     *)
(*            and the imports of the files chosen with it.                 *)
(***************************************************************************)
EXTENDS Integers, Sequences, FiniteSets, TLC

(* ------------------------------ bounds --------------------------------- *)
\* operators (browser sessions), each with its own loaded copy of the line
NumOperators == 2
\* cap on the rows of finance_expenses
MaxExpenses == 2

\* import requests (one per statement file sent), which may overlap
NumRequests == 2
\* transactions a parsed statement holds at most
MaxTxns == 2

\* sessions submitting petty cash transactions and receipt vouchers
NumWriters == 2
\* cap on the rows of each numbered table
MaxRows == 2
\* length of the amount strings given to parseAmount
MaxAmountLen == 3
\* lines of the statement texts given to parseBCAStatement
MaxLines == 3

Operators == 1 .. NumOperators
Writers == 1 .. NumWriters
Requests == 1 .. NumRequests
\* null: no linked row, no value
NULL == 0

\* reconciliation_status values (StatementLine.status)
Statuses == {"unmatched", "suggested", "matched", "recorded"}

VARIABLES
    line,              \* the bank_statement_lines row of the statement line
    finance_expenses,  \* table: sequence of rows, id = position
    statementLines,    \* per operator: the line's status in the loaded copy, "absent" if the list is empty
    recordModal,       \* per operator: the record modal is open on the line (recordingLine)
    pc,                \* per operator: "idle", or "update" inside handleRecordExpense
    expense,           \* per operator: handleRecordExpense's local expense.id, or NULL
    last,              \* history: the last status write that took effect, and the row it found
    bank_statement_uploads,  \* table: sequence of rows, id = position
    imported_lines,    \* table bank_statement_lines as the imports fill it: sequence of rows
    storage,           \* number of objects in the bank-statements bucket
    req,               \* per import request: its position and locals
    petty_cash_transactions,  \* table: sequence of transaction_number values
    receipt_vouchers,  \* table: sequence of voucher_number values
    submit,            \* per writer: handleSubmit's position and its generated number
    amountStr,         \* parseAmount's argument str
    amount,            \* parseAmount's result
    amountPc,          \* "input" before the call of parseAmount, "parsed" after it
    text,              \* parseBCAStatement's argument text
    parsePc,           \* parseBCAStatement's position: "start", "scan", "done"
    header,            \* its locals period, year, month, the balances, startDate, endDate
    lines,             \* its local lines
    i,                 \* its scan index i, counted from 1
    transactions,      \* its local transactions
    blocks,            \* history: the blocks built so far, with the records each gave
    summary,           \* the object it returns
    uploading,         \* the component's uploading flag
    handler            \* per selected file: handleFileUpload's position and the file's type

reconVars == <<line, finance_expenses, statementLines, recordModal, pc, expense, last>>
importVars == <<bank_statement_uploads, imported_lines, storage, req>>
seqVars == <<petty_cash_transactions, receipt_vouchers, submit>>
amountVars == <<amountStr, amount, amountPc>>
parseVars == <<text, parsePc, header, lines, i, transactions, blocks, summary>>
uploadVars == <<uploading, handler>>
vars == <<reconVars, importVars, seqVars, amountVars, parseVars, uploadVars>>

(* ------------------------- rows and helpers ---------------------------- *)
\* the amount printed on the statement line and its transaction date
LineAmount == 1500
LineDate == 20260201
\* the ledger entry a proposed match links the line to
SuggestedEntry == 7

\* a row as the import creates it, on the debit or the credit side
NewLineRow(kind) ==
    [ reconciliation_status |-> "unmatched",
      matched_entry_id      |-> NULL,
      matched_expense_id    |-> NULL,
      debit_amount          |-> IF kind = "debit" THEN LineAmount ELSE 0,
      credit_amount         |-> IF kind = "credit" THEN LineAmount ELSE 0,
      transaction_date      |-> LineDate ]

\* a row for which a match with a ledger entry has been proposed
SuggestedLineRow(kind) ==
    [ NewLineRow(kind) EXCEPT !.reconciliation_status = "suggested",
                              !.matched_entry_id = SuggestedEntry ]

InitialRows ==
    { NewLineRow(k) : k \in {"debit", "credit"} } \cup
    { SuggestedLineRow(k) : k \in {"debit", "credit"} }

\* loadStatementLines: the select succeeds (ok) and the copy holds the row's
\* status, or the catch branch empties the list
loadResult(row, ok) == IF ok THEN row.reconciliation_status ELSE "absent"

NoWrite == [ op |-> "none", pre |-> NewLineRow("debit") ]

\* new Date() while the model runs: the submissions and the parses fall in
\* the same month
ClockYear == 2026
ClockMonth == 11

(* ------------------------------- Init ---------------------------------- *)
ReconInit ==
    /\ line \in InitialRows
    /\ finance_expenses = << >>
    /\ statementLines = [ o \in Operators |-> line.reconciliation_status ]
    /\ recordModal = [ o \in Operators |-> FALSE ]
    /\ pc = [ o \in Operators |-> "idle" ]
    /\ expense = [ o \in Operators |-> NULL ]
    /\ last = NoWrite

\* a request that has not arrived yet
IdleRequest ==
    [ pc |-> "idle", path |-> "none", count |-> 0, upload |-> NULL,
      result |-> "none", failure |-> "none" ]

ImportInit ==
    /\ bank_statement_uploads = << >>
    /\ imported_lines = << >>
    /\ storage = 0
    /\ req = [ r \in Requests |-> IdleRequest ]

\* a writer outside handleSubmit
IdleSubmit == [ pc |-> "idle", kind |-> "none", number |-> << >> ]

SeqInit ==
    /\ petty_cash_transactions = << >>
    /\ receipt_vouchers = << >>
    /\ submit = [ w \in Writers |-> IdleSubmit ]

\* the number 0: no integer digits, no fraction digits
Zero == [ int |-> << >>, frac |-> << >> ]

\* no call of parseAmount
AmountInit ==
    /\ amountStr = << >>
    /\ amount = Zero
    /\ amountPc = "input"

\* parseBCAStatement's locals as declared: period '', year the current
\* year, month 1, both balances 0
DeclaredHeader ==
    [ period |-> << >>, year |-> ClockYear, month |-> 1,
      openingBalance |-> Zero, closingBalance |-> Zero,
      startDate |-> << >>, endDate |-> << >> ]

\* nothing returned yet
NoSummary ==
    [ period |-> << >>, startDate |-> << >>, endDate |-> << >>,
      openingBalance |-> Zero, closingBalance |-> Zero,
      totalDebits |-> Zero, totalCredits |-> Zero, transactions |-> << >> ]

\* parseBCAStatement entered, nothing executed
ParseEntry ==
    /\ parsePc = "start"
    /\ header = DeclaredHeader
    /\ lines = << >>
    /\ i = 1
    /\ transactions = << >>
    /\ blocks = << >>
    /\ summary = NoSummary

ParseInit == text = << >> /\ ParseEntry

\* no file selected
IdleHandler == [ pc |-> "none", type |-> "none" ]

\* useState(false)
UploadInit ==
    /\ uploading = FALSE
    /\ handler = [ r \in Requests |-> IdleHandler ]

Init == ReconInit /\ ImportInit /\ SeqInit /\ AmountInit /\ ParseInit /\ UploadInit

(* ------------------------- the store's updates ------------------------- *)
\* a confirmation that drops the link, as the rejection does
confirmUpdate_unlinks(row) ==
    [row EXCEPT !.reconciliation_status = "matched", !.matched_entry_id = NULL]

\* update({reconciliation_status: 'matched'}).eq('id', lineId)
confirmUpdate(row) == [row EXCEPT !.reconciliation_status = "matched"]

\* a rejection that resets the status and keeps the link
rejectUpdate_keepsLink(row) == [row EXCEPT !.reconciliation_status = "unmatched"]

\* update({reconciliation_status: 'unmatched', matched_entry_id: null}).eq('id', lineId)
rejectUpdate(row) ==
    [row EXCEPT !.reconciliation_status = "unmatched", !.matched_entry_id = NULL]

\* update({reconciliation_status: 'recorded', matched_expense_id: expense.id, ...}).eq('id', line.id)
recordExpenseUpdate(row, id) ==
    [row EXCEPT !.reconciliation_status = "recorded", !.matched_expense_id = id]

\* update({reconciliation_status: 'recorded', notes, ...}).eq('id', line.id)
recordReceiptUpdate(row) == [row EXCEPT !.reconciliation_status = "recorded"]

\* insert({expense_category, amount: line.debit, expense_date: line.date, ...})
expenseRow(row) ==
    [ amount |-> row.debit_amount, expense_date |-> row.transaction_date ]

\* a handler's status write, whose error is not looked at, followed by the
\* handler's loadStatementLines()
StatusWrite(o, op, newRow, ok, loadOk) ==
    LET row == IF ok THEN newRow ELSE line
    IN /\ line' = row
       /\ last' = IF ok THEN [op |-> op, pre |-> line] ELSE last
       /\ statementLines' = [statementLines EXCEPT ![o] = loadResult(row, loadOk)]

(* ------------------------------ actions -------------------------------- *)
\* useEffect on selectedBank/dateRange: reload the operator's copy
loadStatementLines(o) ==
    /\ \E ok \in BOOLEAN :
         statementLines' = [statementLines EXCEPT ![o] = loadResult(line, ok)]
    /\ UNCHANGED <<line, finance_expenses, recordModal, pc, expense, last, importVars, seqVars, amountVars, parseVars, uploadVars>>

\* a matcher that links an unmatched line to a candidate and calls it matched
autoMatchTransactions_promotes(o) ==
    /\ line.reconciliation_status = "unmatched"
    /\ line' = [line EXCEPT !.reconciliation_status = "matched",
                             !.matched_entry_id = SuggestedEntry]
    /\ UNCHANGED <<finance_expenses, statementLines, recordModal, pc, expense, last,
                   importVars, seqVars, amountVars, parseVars, uploadVars>>

\* a matcher that proposes a candidate for an unmatched line
autoMatchTransactions_suggests(o) ==
    /\ line.reconciliation_status = "unmatched"
    /\ line' = SuggestedLineRow(IF line.debit_amount > 0 THEN "debit" ELSE "credit")
    /\ UNCHANGED <<finance_expenses, statementLines, recordModal, pc, expense, last,
                   importVars, seqVars, amountVars, parseVars, uploadVars>>

\* the stub matcher: selects the candidate expenses and compares nothing
autoMatchTransactions(o) ==
    /\ \E candidates \in SUBSET (1 .. Len(finance_expenses)) : TRUE
    /\ UNCHANGED vars

\* confirm button, rendered for a line shown as suggested
confirmMatchStep(o, ok, loadOk) ==
    /\ statementLines[o] = "suggested"
    /\ StatusWrite(o, "confirmMatch", confirmUpdate(line), ok, loadOk)
    /\ UNCHANGED <<finance_expenses, recordModal, pc, expense, importVars, seqVars, amountVars, parseVars, uploadVars>>

confirmMatch(o) == \E ok, loadOk \in BOOLEAN : confirmMatchStep(o, ok, loadOk)

\* reject button, rendered for a line shown as suggested
rejectMatchStep(o, ok, loadOk) ==
    /\ statementLines[o] = "suggested"
    /\ StatusWrite(o, "rejectMatch", rejectUpdate(line), ok, loadOk)
    /\ UNCHANGED <<finance_expenses, recordModal, pc, expense, importVars, seqVars, amountVars, parseVars, uploadVars>>

rejectMatch(o) == \E ok, loadOk \in BOOLEAN : rejectMatchStep(o, ok, loadOk)

\* Record button, rendered for a line shown as unmatched: openRecordModal(line)
openRecordModal(o) ==
    /\ statementLines[o] = "unmatched"
    /\ recordModal' = [recordModal EXCEPT ![o] = TRUE]
    /\ UNCHANGED <<line, finance_expenses, statementLines, pc, expense, last, importVars, seqVars, amountVars, parseVars, uploadVars>>

\* Modal onClose
closeRecordModal(o) ==
    /\ recordModal[o]
    /\ recordModal' = [recordModal EXCEPT ![o] = FALSE]
    /\ UNCHANGED <<line, finance_expenses, statementLines, pc, expense, last, importVars, seqVars, amountVars, parseVars, uploadVars>>

\* handleRecordExpense(recordingLine, ...) up to the insert: getUser, then the
\* finance_expenses insert; its form is shown for a line with debit > 0
recordExpenseInsertStep(o, authed, ok) ==
    /\ pc[o] = "idle"
    /\ recordModal[o]
    /\ line.debit_amount > 0
    /\ Len(finance_expenses) < MaxExpenses
    /\ IF authed /\ ok
         THEN /\ finance_expenses' = Append(finance_expenses, expenseRow(line))
              /\ pc' = [pc EXCEPT ![o] = "update"]
              /\ expense' = [expense EXCEPT ![o] = Len(finance_expenses) + 1]
         ELSE UNCHANGED <<finance_expenses, pc, expense>>
    /\ UNCHANGED <<line, statementLines, recordModal, last, importVars, seqVars, amountVars, parseVars, uploadVars>>

handleRecordExpense_insert(o) ==
    \E authed, ok \in BOOLEAN : recordExpenseInsertStep(o, authed, ok)

\* handleRecordExpense from the status update to its end
recordExpenseUpdateStep(o, ok, loadOk) ==
    /\ pc[o] = "update"
    /\ StatusWrite(o, "handleRecordExpense", recordExpenseUpdate(line, expense[o]), ok, loadOk)
    /\ recordModal' = [recordModal EXCEPT ![o] = FALSE]
    /\ pc' = [pc EXCEPT ![o] = "idle"]
    /\ expense' = [expense EXCEPT ![o] = NULL]
    /\ UNCHANGED <<finance_expenses, importVars, seqVars, amountVars, parseVars, uploadVars>>

handleRecordExpense_update(o) ==
    \E ok, loadOk \in BOOLEAN : recordExpenseUpdateStep(o, ok, loadOk)

\* handleRecordReceipt(recordingLine, ...): getUser, the status update, the
\* reload; its form is shown for a line with credit > 0
recordReceiptStep(o, authed, ok, loadOk) ==
    /\ pc[o] = "idle"
    /\ recordModal[o]
    /\ line.credit_amount > 0
    /\ IF authed
         THEN /\ StatusWrite(o, "handleRecordReceipt", recordReceiptUpdate(line), ok, loadOk)
              /\ recordModal' = [recordModal EXCEPT ![o] = FALSE]
         ELSE UNCHANGED <<line, last, statementLines, recordModal>>
    /\ UNCHANGED <<finance_expenses, pc, expense, importVars, seqVars, amountVars, parseVars, uploadVars>>

handleRecordReceipt(o) ==
    \E authed, ok, loadOk \in BOOLEAN : recordReceiptStep(o, authed, ok, loadOk)

ReconNext ==
    \E o \in Operators :
        \/ loadStatementLines(o)
        \/ autoMatchTransactions(o)
        \/ confirmMatch(o)
        \/ rejectMatch(o)
        \/ openRecordModal(o)
        \/ closeRecordModal(o)
        \/ handleRecordExpense_insert(o)
        \/ handleRecordExpense_update(o)
        \/ handleRecordReceipt(o)

Next == ReconNext

Spec == Init /\ [][Next]_vars

\* A handler that has been started runs on; the store accepts a status write
\* that is issued again and again.
LiveSpec ==
    /\ Spec
    /\ WF_vars(Next)
    /\ \A o \in Operators : SF_vars(\E loadOk \in BOOLEAN : recordExpenseUpdateStep(o, TRUE, loadOk))

(* --------------------------- the import -------------------------------- *)
\* rows that an import would hand over in a status of its own
insertData_pending(uploadId, n) ==
    [ k \in 1 .. n |-> [ upload_id |-> uploadId, reconciliation_status |-> "pending" ] ]

\* the rows of one import: lines.map(... upload_id, reconciliation_status: 'unmatched' ...)
insertData(uploadId, n) ==
    [ k \in 1 .. n |-> [ upload_id |-> uploadId, reconciliation_status |-> "unmatched" ] ]

\* insert into bank_statement_uploads: { ..., transaction_count: lines.length, status: 'completed' }
uploadRecord(n) == [ transaction_count |-> n, status |-> "completed" ]

\* the persisted lines that reference upload u
LinesOfUpload(u) ==
    { k \in DOMAIN imported_lines : imported_lines[k].upload_id = u }

\* the handler ends: the response is sent (PDF) or the alert shown
\* (spreadsheet); failure names the statement that threw
Ended(r, result, failure) ==
    [ req[r] EXCEPT !.pc = "ended", !.result = result, !.failure = failure ]

\* if (text.length < 100) throw
MinTextLength == 100
\* lengths of the extracted text: empty, just short, just enough, long
TextLengths == {0, MinTextLength - 1, MinTextLength, 2 * MinTextLength}

\* a handler that does not look at the Authorization header or the user
startFailure_noAuthCheck(path, authed, found, textLen, n) ==
    IF path = "pdf"
      THEN IF ~found THEN "account"
           ELSE IF textLen < MinTextLength THEN "text"
           ELSE IF n = 0 THEN "empty"
           ELSE "none"
      ELSE IF n = 0 THEN "empty" ELSE "none"

\* a handler that checks the parse result only after the file is stored
startFailure_lateParseCheck(path, authed, found, textLen, n) ==
    IF path = "pdf"
      THEN IF ~authed THEN "auth"
           ELSE IF ~found THEN "account"
           ELSE "none"
      ELSE "none"

\* the statement of the handler that throws before the first write, or "none"
\* PDF: no Authorization header or no user, bank account not found, text
\* shorter than the minimum, no transaction parsed.  Spreadsheet: no line parsed.
startFailure(path, authed, found, textLen, n) ==
    IF path = "pdf"
      THEN IF ~authed THEN "auth"
           ELSE IF ~found THEN "account"
           ELSE IF textLen < MinTextLength THEN "text"
           ELSE IF n = 0 THEN "empty"
           ELSE "none"
      ELSE IF n = 0 THEN "empty" ELSE "none"

ParseFailures == {"text", "empty"}

\* A request arrives and runs up to its first write.  PDF: the function checks
\* the Authorization header and the user, looks the bank account up, extracts
\* the text and parses it.  Spreadsheet: handleExcelUpload parses the sheet.
ImportStart(r, path, authed, found, textLen, n) ==
    /\ req[r].pc = "idle"
    /\ LET failure == startFailure(path, authed, found, textLen, n)
       IN req' = [req EXCEPT ![r] =
                    IF failure = "none"
                      THEN [ pc |-> IF path = "pdf" THEN "storage" ELSE "upload",
                             path |-> path, count |-> n, upload |-> NULL,
                             result |-> "none", failure |-> "none" ]
                      ELSE [ pc |-> "ended", path |-> path, count |-> 0,
                             upload |-> NULL, result |-> "error",
                             failure |-> failure ] ]
    /\ UNCHANGED <<bank_statement_uploads, imported_lines, storage, reconVars, seqVars, amountVars, parseVars, uploadVars>>

\* supabase.storage.from('bank-statements').upload(fileName, file)
StorageUpload(r, ok) ==
    /\ req[r].pc = "storage"
    /\ IF ok
         THEN /\ storage' = storage + 1
              /\ req' = [req EXCEPT ![r].pc = "upload"]
         ELSE /\ req' = [req EXCEPT ![r] = Ended(r, "error", "storage")]
              /\ UNCHANGED storage
    /\ UNCHANGED <<bank_statement_uploads, imported_lines, reconVars, seqVars, amountVars, parseVars, uploadVars>>

\* insert into bank_statement_uploads ... .select().single()
UploadInsert(r, ok) ==
    /\ req[r].pc = "upload"
    /\ IF ok
         THEN /\ bank_statement_uploads' =
                    Append(bank_statement_uploads, uploadRecord(req[r].count))
              /\ req' = [req EXCEPT ![r].pc = "lines",
                                    ![r].upload = Len(bank_statement_uploads) + 1]
         ELSE /\ req' = [req EXCEPT ![r] = Ended(r, "error", "upload")]
              /\ UNCHANGED bank_statement_uploads
    /\ UNCHANGED <<imported_lines, storage, reconVars, seqVars, amountVars, parseVars, uploadVars>>

\* insert into bank_statement_lines (one statement: every row or none); on
\* its error the handler throws and ends
LinesInsert(r, ok) ==
    /\ req[r].pc = "lines"
    /\ IF ok
         THEN /\ imported_lines' = imported_lines \o insertData(req[r].upload, req[r].count)
              /\ req' = [req EXCEPT ![r] = Ended(r, "ok", "none")]
         ELSE /\ req' = [req EXCEPT ![r] = Ended(r, "error", "lines")]
              /\ UNCHANGED imported_lines
    /\ UNCHANGED <<bank_statement_uploads, storage, reconVars, seqVars, amountVars, parseVars, uploadVars>>

ImportNext ==
    \E r \in Requests :
        \/ \E path \in {"pdf", "excel"}, authed, found \in BOOLEAN,
                 textLen \in TextLengths, n \in 0 .. MaxTxns :
              ImportStart(r, path, authed, found, textLen, n)
        \/ \E ok \in BOOLEAN : StorageUpload(r, ok)
        \/ \E ok \in BOOLEAN : UploadInsert(r, ok)
        \/ \E ok \in BOOLEAN : LinesInsert(r, ok)

\* the imports alone, the reconciliation component at rest
ImportSpecInit == Init /\ line = NewLineRow("debit")

ImportSpec == ImportSpecInit /\ [][ImportNext]_vars

\* the imports run under a component at rest
importAtRest == ReconInit /\ line = NewLineRow("debit") /\ ImportNext

\* the component works on the line while no import has arrived
reconcileStored == ImportInit /\ ReconNext

LineNext ==
    \/ importAtRest
    \/ reconcileStored

\* a statement line's row, as the imports create it and as the component's
\* operations rewrite it
LineSpec == Init /\ [][LineNext]_vars

(* ------------------------ the upload button ---------------------------- *)
\* The button is disabled while uploading is set.  A file is chosen:
\* setUploading(true), then handlePDFUpload or handleExcelUpload is called.
handleFileUpload(r, type) ==
    /\ ~uploading
    /\ handler[r].pc = "none"
    /\ req[r].pc = "idle"
    /\ uploading' = TRUE
    /\ handler' = [handler EXCEPT ![r] = [ pc |-> "awaiting", type |-> type ]]
    /\ UNCHANGED <<reconVars, importVars, seqVars, amountVars, parseVars>>

\* handlePDFUpload: the fetch of the edge function, which runs up to its
\* first write
handlePDFUpload(r) ==
    /\ handler[r] = [ pc |-> "awaiting", type |-> "pdf" ]
    /\ \E authed, found \in BOOLEAN, textLen \in TextLengths, n \in 0 .. MaxTxns :
          ImportStart(r, "pdf", authed, found, textLen, n)

\* finally { setUploading(false) }: after the response of the edge function
\* on the PDF path; on the spreadsheet path as soon as handleExcelUpload has
\* handed the file to the FileReader and returned
handleFileUpload_finally(r) ==
    /\ handler[r].pc = "awaiting"
    /\ handler[r].type = "pdf" => req[r].pc = "ended"
    /\ uploading' = FALSE
    /\ handler' = [handler EXCEPT ![r].pc = "returned"]
    /\ UNCHANGED <<reconVars, importVars, seqVars, amountVars, parseVars>>

\* reader.onload: the callback that parses the sheet and inserts; the load
\* event is delivered after handleExcelUpload has returned
reader_onload(r) ==
    /\ handler[r] = [ pc |-> "returned", type |-> "excel" ]
    /\ \E n \in 0 .. MaxTxns : ImportStart(r, "excel", TRUE, TRUE, MinTextLength, n)

UploadNext ==
    \E r \in Requests :
        \/ \E type \in {"pdf", "excel"} : handleFileUpload(r, type)
        \/ handlePDFUpload(r)
        \/ handleFileUpload_finally(r)
        \/ reader_onload(r)
        \/ \E ok \in BOOLEAN : StorageUpload(r, ok)
        \/ \E ok \in BOOLEAN : UploadInsert(r, ok)
        \/ \E ok \in BOOLEAN : LinesInsert(r, ok)

\* one component, its files chosen with the upload button
UploadSpecInit == Init /\ line = NewLineRow("debit")

UploadSpec == UploadSpecInit /\ [][UploadNext]_vars

(* ------------------------ text and numbers ----------------------------- *)
\* a string is the sequence of its characters
DigitChars == <<"0", "1", "2", "3", "4", "5", "6", "7", "8", "9">>

RECURSIVE toString(_)
\* Number.prototype.toString of a non-negative integer
toString(n) ==
    IF n < 10 THEN << DigitChars[n + 1] >>
    ELSE toString(n \div 10) \o << DigitChars[(n % 10) + 1] >>

RECURSIVE padStart(_, _, _)
\* String.prototype.padStart(len, ch)
padStart(str, len, ch) ==
    IF Len(str) >= len THEN str ELSE padStart(<< ch >> \o str, len, ch)

\* String.prototype.slice(-k): the last k characters
sliceLast(str, k) ==
    IF Len(str) <= k THEN str ELSE SubSeq(str, Len(str) - k + 1, Len(str))

\* String.prototype.startsWith, which is what LIKE 'prefix%' tests
startsWith(str, prefix) ==
    /\ Len(str) >= Len(prefix)
    /\ SubSeq(str, 1, Len(prefix)) = prefix

(* ---------------------- period-derived numbers ------------------------- *)
\* the prefix of each kind of submission
NumberPrefix(kind) ==
    CASE kind = "withdraw" -> <<"P", "C", "W">>
      [] kind = "expense"  -> <<"P", "C", "E">>
      [] kind = "voucher"  -> <<"R", "V">>

SubmitKinds == {"withdraw", "expense", "voucher"}

\* `${prefix}${year}${month}`, the LIKE pattern without its %
PeriodPrefix(kind) ==
    NumberPrefix(kind) \o sliceLast(toString(ClockYear), 2)
                       \o padStart(toString(ClockMonth), 2, "0")

\* the table a kind of submission writes to
TableOf(kind) ==
    IF kind = "voucher" THEN receipt_vouchers ELSE petty_cash_transactions

\* select('*', { count: 'exact', head: true }).like(column, `${prefix}${year}${month}%`)
countLike(table, prefix) ==
    Cardinality({ k \in DOMAIN table : startsWith(table[k], prefix) })

\* generateTransactionNumber / generateVoucherNumber on a count; a failed
\* count query gives count null, and (count || 0) is then 0
generateNumber(kind, count) ==
    PeriodPrefix(kind) \o <<"-">> \o padStart(toString(count + 1), 4, "0")

\* handleSubmit up to the insert: getUser, then the number from the count
handleSubmit_generate(w, kind, authed, countOk) ==
    /\ submit[w].pc = "idle"
    /\ Len(TableOf(kind)) < MaxRows
    /\ IF authed
         THEN LET count == IF countOk
                             THEN countLike(TableOf(kind), PeriodPrefix(kind))
                             ELSE NULL
              IN submit' = [submit EXCEPT ![w] =
                              [ pc |-> "insert", kind |-> kind,
                                number |-> generateNumber(kind, count) ]]
         ELSE UNCHANGED submit
    /\ UNCHANGED <<petty_cash_transactions, receipt_vouchers, reconVars, importVars, amountVars, parseVars, uploadVars>>

\* handleSubmit from the insert of the row to its end
handleSubmit_insert(w, ok) ==
    /\ submit[w].pc = "insert"
    /\ IF ok /\ submit[w].kind = "voucher"
         THEN receipt_vouchers' = Append(receipt_vouchers, submit[w].number)
         ELSE UNCHANGED receipt_vouchers
    /\ IF ok /\ submit[w].kind # "voucher"
         THEN petty_cash_transactions' =
                  Append(petty_cash_transactions, submit[w].number)
         ELSE UNCHANGED petty_cash_transactions
    /\ submit' = [submit EXCEPT ![w] = IdleSubmit]
    /\ UNCHANGED <<reconVars, importVars, amountVars, parseVars, uploadVars>>

SeqNext ==
    \E w \in Writers :
        \/ \E kind \in SubmitKinds, authed, countOk \in BOOLEAN :
              handleSubmit_generate(w, kind, authed, countOk)
        \/ \E ok \in BOOLEAN : handleSubmit_insert(w, ok)

\* the submissions alone, everything else at rest
SeqSpecInit == Init /\ line = NewLineRow("debit")

SeqSpec == SeqSpecInit /\ [][SeqNext]_vars

(* ----------------------- claims on the numbers ------------------------- *)
\* the values of a table column are pairwise distinct
Distinct(table) ==
    \A h, k \in DOMAIN table : table[h] = table[k] => h = k

\* C12: the transaction numbers of the inserted petty cash rows are pairwise
\* distinct, and so are the voucher numbers of the inserted receipt vouchers,
\* however the submissions of one month interleave.
C12_NumbersDistinct ==
    /\ Distinct(petty_cash_transactions)
    /\ Distinct(receipt_vouchers)

(* --------------------------- parseAmount ------------------------------- *)
\* A decimal number is the digits of its integer part without leading zeros
\* and the digits of its fraction without trailing zeros.
DigitValue(c) == CHOOSE d \in 0 .. 9 : DigitChars[d + 1] = c

isDigit(c) == \E d \in 0 .. 9 : DigitChars[d + 1] = c

RECURSIVE stripLeadingZeros(_)
stripLeadingZeros(ds) ==
    IF ds # << >> /\ Head(ds) = 0 THEN stripLeadingZeros(Tail(ds)) ELSE ds

RECURSIVE stripTrailingZeros(_)
stripTrailingZeros(ds) ==
    IF ds # << >> /\ ds[Len(ds)] = 0
      THEN stripTrailingZeros(SubSeq(ds, 1, Len(ds) - 1))
      ELSE ds

\* the number written with the digit characters ints before the point and
\* fracs after it
Decimal(ints, fracs) ==
    [ int  |-> stripLeadingZeros([ k \in 1 .. Len(ints) |-> DigitValue(ints[k]) ]),
      frac |-> stripTrailingZeros([ k \in 1 .. Len(fracs) |-> DigitValue(fracs[k]) ]) ]

\* the characters of str that satisfy keep, in order
RECURSIVE filterChars(_, _)
filterChars(str, keep) ==
    IF str = << >> THEN << >>
    ELSE (IF Head(str) \in keep THEN << Head(str) >> ELSE << >>)
             \o filterChars(Tail(str), keep)

\* (str.match(/c/g) || []).length
countChar(str, c) == Cardinality({ k \in DOMAIN str : str[k] = c })

\* str.replace(/c/g, ''): every c removed
removeAll(str, c) == filterChars(str, { str[k] : k \in DOMAIN str } \ {c})

\* str.replace(c, d): the first c replaced
replaceFirst(str, c, d) ==
    IF \E k \in DOMAIN str : str[k] = c
      THEN LET k == CHOOSE k \in DOMAIN str :
                        /\ str[k] = c
                        /\ \A h \in 1 .. k - 1 : str[h] # c
           IN [ h \in DOMAIN str |-> IF h = k THEN d ELSE str[h] ]
      ELSE str

\* the length of the longest prefix of str made of digits
RECURSIVE digitRun(_)
digitRun(str) ==
    IF str # << >> /\ isDigit(Head(str)) THEN 1 + digitRun(Tail(str)) ELSE 0

\* parseFloat(str) || 0 of a string of digits, dots and commas: the longest
\* prefix digits [. digits], or . digits; NaN, hence 0, without a digit
parseFloat(str) ==
    LET n == digitRun(str)
        rest == SubSeq(str, n + 1, Len(str))
        m == IF rest # << >> /\ Head(rest) = "." THEN digitRun(Tail(rest)) ELSE 0
    IN Decimal(SubSeq(str, 1, n), SubSeq(rest, 2, m + 1))

AmountChars == { DigitChars[d + 1] : d \in 0 .. 9 } \cup {",", "."}

\* the chain without its third branch: one dot and one comma parsed directly
normalize_noMixedRule(cleaned, dots, commas) ==
    IF dots > 1 THEN replaceFirst(removeAll(cleaned, "."), ",", ".")
    ELSE IF commas > 1 THEN removeAll(cleaned, ",")
    ELSE IF commas = 1 /\ dots = 0 THEN replaceFirst(cleaned, ",", ".")
    ELSE cleaned

\* the if / else if chain of parseAmount
normalize(cleaned, dots, commas) ==
    IF dots > 1 THEN replaceFirst(removeAll(cleaned, "."), ",", ".")
    ELSE IF commas > 1 THEN removeAll(cleaned, ",")
    ELSE IF dots = 1 /\ commas = 1
      THEN replaceFirst(removeAll(cleaned, "."), ",", ".")
    ELSE IF commas = 1 /\ dots = 0 THEN replaceFirst(cleaned, ",", ".")
    ELSE cleaned

parseAmount(str) ==
    IF str = << >> THEN Zero
    ELSE LET cleaned == filterChars(str, AmountChars)
         IN parseFloat(normalize(cleaned, countChar(cleaned, "."),
                                 countChar(cleaned, ",")))

\* the examples of the amount normalization
Example1 == <<"1", ".", "2", "3", "4", ".", "5", "6", "7">>
Example2 == <<"1", "2", "3", "4", ",", "5", "6">>
Example3 == <<"1", ".", "2", "3", "4", ",", "5", "6">>
Example4 == <<"1", ",", "2", "3", "4", ",", "5", "6", "7">>
\* strings with several dots and several commas
Mixed1 == <<"1", ".", "2", ".", "3", ",", "4", ",", "5">>
Mixed2 == <<"1", ",", "2", "3", "4", ",", "5", "6", "7", ".", "8", "9">>

RECURSIVE StringsUpTo(_, _)
\* the strings over alphabet of length at most n
StringsUpTo(alphabet, n) ==
    IF n = 0 THEN { << >> }
    ELSE LET shorter == StringsUpTo(alphabet, n - 1)
         IN shorter \cup { << c >> \o str : c \in alphabet, str \in shorter }

AmountInputs ==
    StringsUpTo({"0", "1", "5", ".", ","}, MaxAmountLen)
        \cup {Example1, Example2, Example3, Example4, Mixed1, Mixed2}

\* amt = parseAmount(amountMatch[1])
callParseAmount ==
    /\ amountPc = "input"
    /\ amount' = parseAmount(amountStr)
    /\ amountPc' = "parsed"
    /\ UNCHANGED <<amountStr, reconVars, importVars, seqVars, parseVars, uploadVars>>

AmountNext == callParseAmount

AmountSpecInit ==
    /\ ReconInit /\ line = NewLineRow("debit")
    /\ ImportInit
    /\ SeqInit
    /\ amountStr \in AmountInputs
    /\ amount = Zero
    /\ amountPc = "input"
    /\ ParseInit
    /\ UploadInit

AmountSpec == AmountSpecInit /\ [][AmountNext]_vars

(* ----------------------- claims on parseAmount ------------------------- *)
\* the characters of str before the first c
beforeFirst(str, c) ==
    IF \E k \in DOMAIN str : str[k] = c
      THEN SubSeq(str, 1, (CHOOSE k \in DOMAIN str :
                              str[k] = c /\ \A h \in 1 .. k - 1 : str[h] # c) - 1)
      ELSE str

\* the digit characters of str that follow the first c, up to the next
\* character that is no digit
afterFirst(str, c) ==
    IF \E k \in DOMAIN str : str[k] = c
      THEN LET k == CHOOSE k \in DOMAIN str :
                        str[k] = c /\ \A h \in 1 .. k - 1 : str[h] # c
               rest == SubSeq(str, k + 1, Len(str))
           IN SubSeq(rest, 1, digitRun(rest))
      ELSE << >>

\* the number str writes when thousands is the thousands separator (or "",
\* none) and decimal the decimal separator: the separators of thousands are
\* dropped, the integer part is the digits before the first decimal
\* separator, the fraction the digits that follow it
Reading(str, thousands, decimal) ==
    LET plain == filterChars(str, AmountChars \ {thousands})
    IN Decimal(beforeFirst(plain, decimal), afterFirst(plain, decimal))

\* the disambiguation table: the first rule that matches decides the reading
TableValue(str) ==
    LET dots == countChar(str, ".")
        commas == countChar(str, ",")
    IN IF dots > 1 THEN Reading(str, ".", ",")
       ELSE IF commas > 1 THEN Reading(str, ",", ".")
       ELSE IF dots = 1 /\ commas = 1 THEN Reading(str, ".", ",")
       ELSE IF commas = 1 /\ dots = 0 THEN Reading(str, "", ",")
       ELSE Reading(str, "", ".")

\* the integer n as a decimal number
RECURSIVE IntDigits(_)
IntDigits(n) == IF n = 0 THEN << >> ELSE IntDigits(n \div 10) \o << n % 10 >>

\* C18: parseAmount gives the value of the ordered disambiguation table
\* (several dots; else several commas; else one dot and one comma; else one
\* comma and no dot; else the direct reading), and so "1.234.567" gives
\* 1234567, "1234,56" gives 1234.56, "1.234,56" gives 1234.56 and
\* "1,234,567" gives 1234567.
C18_ParseAmountTable ==
    amountPc = "parsed"
        => /\ amount = TableValue(amountStr)
           /\ amountStr = Example1 => amount = [ int |-> IntDigits(1234567), frac |-> << >> ]
           /\ amountStr = Example2 => amount = [ int |-> IntDigits(1234), frac |-> <<5, 6>> ]
           /\ amountStr = Example3 => amount = [ int |-> IntDigits(1234), frac |-> <<5, 6>> ]
           /\ amountStr = Example4 => amount = [ int |-> IntDigits(1234567), frac |-> << >> ]

C18_Witness ==
    /\ amountPc = "parsed"
    /\ amountStr = Example3
    /\ amount = [ int |-> <<1, 2, 3, 4>>, frac |-> <<5, 6>> ]

(* ------------------------ parseBCAStatement ---------------------------- *)
LowerCase == <<"a", "b", "c", "d", "e", "f", "g", "h", "i", "j", "k", "l", "m", "n", "o", "p", "q", "r", "s", "t", "u", "v", "w", "x", "y", "z">>
UpperCase == <<"A", "B", "C", "D", "E", "F", "G", "H", "I", "J", "K", "L", "M", "N", "O", "P", "Q", "R", "S", "T", "U", "V", "W", "X", "Y", "Z">>

\* the i flag of a regular expression: letters compare by their upper case
toUpperCase(c) ==
    IF \E k \in DOMAIN LowerCase : LowerCase[k] = c
      THEN UpperCase[CHOOSE k \in DOMAIN LowerCase : LowerCase[k] = c]
      ELSE c

\* \s
WhiteSpace == {" ", "\n", "\t", "\r"}

DigitSet == { DigitChars[d + 1] : d \in 0 .. 9 }

\* \w
WordChars ==
    DigitSet \cup {"_"} \cup { LowerCase[k] : k \in DOMAIN LowerCase }
             \cup { UpperCase[k] : k \in DOMAIN UpperCase }

\* the literal lit matches str at position p, letters in either case
matchAt(str, p, lit) ==
    /\ p >= 1
    /\ p + Len(lit) - 1 <= Len(str)
    /\ \A k \in DOMAIN lit : toUpperCase(str[p + k - 1]) = toUpperCase(lit[k])

\* /lit/i matches somewhere in str
containsIgnoreCase(str, lit) == \E p \in DOMAIN str : matchAt(str, p, lit)

\* /lit/ matches somewhere in str, case respected
containsExact(str, lit) ==
    \E p \in DOMAIN str :
        /\ p + Len(lit) - 1 <= Len(str)
        /\ SubSeq(str, p, p + Len(lit) - 1) = lit

RECURSIVE runFrom(_, _, _)
\* the number of characters of str from position p on that are in class
runFrom(str, p, class) ==
    IF p <= Len(str) /\ str[p] \in class THEN 1 + runFrom(str, p + 1, class) ELSE 0

RECURSIVE parseInt(_)
\* parseInt of a string of digits
parseInt(str) ==
    IF str = << >> THEN 0
    ELSE 10 * parseInt(SubSeq(str, 1, Len(str) - 1)) + DigitValue(str[Len(str)])

\* monthMap, by position
MonthNames ==
    << <<"J", "A", "N", "U", "A", "R", "I">>,
       <<"F", "E", "B", "R", "U", "A", "R", "I">>,
       <<"M", "A", "R", "E", "T">>,
       <<"A", "P", "R", "I", "L">>,
       <<"M", "E", "I">>,
       <<"J", "U", "N", "I">>,
       <<"J", "U", "L", "I">>,
       <<"A", "G", "U", "S", "T", "U", "S">>,
       <<"S", "E", "P", "T", "E", "M", "B", "E", "R">>,
       <<"O", "K", "T", "O", "B", "E", "R">>,
       <<"N", "O", "V", "E", "M", "B", "E", "R">>,
       <<"D", "E", "S", "E", "M", "B", "E", "R">> >>

\* /PERIODE[:\s]+(JANUARI|...|DESEMBER)[\s]+(\d{4})/i tried at position p:
\* the month (0 if the expression does not match there) and the positions of
\* the two groups
periodAt(str, p) ==
    LET q == p + 7 + runFrom(str, p + 7, WhiteSpace \cup {":"})
        months == { m \in DOMAIN MonthNames : matchAt(str, q, MonthNames[m]) }
        m == IF months = {} THEN 0 ELSE CHOOSE m \in months : TRUE
        r == IF m = 0 THEN q ELSE q + Len(MonthNames[m])
        y == r + runFrom(str, r, WhiteSpace)
    IN IF /\ matchAt(str, p, <<"P", "E", "R", "I", "O", "D", "E">>)
          /\ q > p + 7
          /\ m # 0
          /\ y > r
          /\ runFrom(str, y, DigitSet) >= 4
         THEN [ month |-> m, name |-> SubSeq(str, q, r - 1), year |-> SubSeq(str, y, y + 3) ]
         ELSE [ month |-> 0, name |-> << >>, year |-> << >> ]

\* text.match(...) of the period: the leftmost match, month 0 if there is none
periodMatch(str) ==
    LET ps == { p \in DOMAIN str : periodAt(str, p).month # 0 }
    IN IF ps = {} THEN periodAt(str, 0)
       ELSE periodAt(str, CHOOSE p \in ps : \A q \in ps : p <= q)

\* /SALDO[\s]+label[:\s]*([\d,\.]+)/i tried at position p: the group, or ""
saldoAt(str, p, label) ==
    LET q == p + 5 + runFrom(str, p + 5, WhiteSpace)
        r == q + Len(label)
        a == r + runFrom(str, r, WhiteSpace \cup {":"})
        n == runFrom(str, a, AmountChars)
    IN IF /\ matchAt(str, p, <<"S", "A", "L", "D", "O">>)
          /\ q > p + 5
          /\ matchAt(str, q, label)
          /\ n >= 1
         THEN SubSeq(str, a, a + n - 1)
         ELSE << >>

\* text.match(/SALDO[\s]+label.../i): the group of the leftmost match, "" if none
saldoMatch(str, label) ==
    LET ps == { p \in DOMAIN str : saldoAt(str, p, label) # << >> }
    IN IF ps = {} THEN << >>
       ELSE saldoAt(str, CHOOSE p \in ps : \A q \in ps : p <= q, label)

\* the Gregorian leap years
isLeapYear(y) == (y % 4 = 0 /\ y % 100 # 0) \/ y % 400 = 0

\* the days of month m of year y
daysInMonth(y, m) ==
    IF m = 2 THEN (IF isLeapYear(y) THEN 29 ELSE 28)
    ELSE IF m \in {4, 6, 9, 11} THEN 30
    ELSE 31

\* the Date constructor reads a year from 0 to 99 as 1900 + year
dateYear(y) == IF y \in 0 .. 99 THEN 1900 + y ELSE y

\* new Date(year, month, 0).getDate(): day 0 of the month after month
lastDayOf(year, month) == daysInMonth(dateYear(year), month)

\* `${year}-${String(month).padStart(2, '0')}-${String(day).padStart(2, '0')}`
formatDate(year, month, day) ==
    toString(year) \o <<"-">> \o padStart(toString(month), 2, "0")
                   \o <<"-">> \o padStart(toString(day), 2, "0")

\* lines 196-217: the period, the balances, startDate and endDate
headerOf(str) ==
    LET pm == periodMatch(str)
        year == IF pm.month # 0 THEN parseInt(pm.year) ELSE ClockYear
        month == IF pm.month # 0 THEN pm.month ELSE 1
        opening == saldoMatch(str, <<"A", "W", "A", "L">>)
        closing == saldoMatch(str, <<"A", "K", "H", "I", "R">>)
    IN [ period |-> IF pm.month # 0 THEN pm.name \o <<" ">> \o pm.year ELSE << >>,
         year |-> year,
         month |-> month,
         openingBalance |-> IF opening # << >> THEN parseAmount(opening) ELSE Zero,
         closingBalance |-> IF closing # << >> THEN parseAmount(closing) ELSE Zero,
         startDate |-> formatDate(year, month, 1),
         endDate |-> formatDate(year, month, lastDayOf(year, month)) ]

\* the position of the first c in str, 0 if there is none
indexOf(str, c) ==
    IF \E k \in DOMAIN str : str[k] = c
      THEN CHOOSE k \in DOMAIN str : str[k] = c /\ \A h \in 1 .. k - 1 : str[h] # c
      ELSE 0

RECURSIVE split(_, _)
\* str.split(/c/)
split(str, c) ==
    LET k == indexOf(str, c)
    IN IF k = 0 THEN << str >>
       ELSE << SubSeq(str, 1, k - 1) >> \o split(SubSeq(str, k + 1, Len(str)), c)

RECURSIVE trimEnd(_)
trimEnd(str) ==
    IF str # << >> /\ str[Len(str)] \in WhiteSpace
      THEN trimEnd(SubSeq(str, 1, Len(str) - 1))
      ELSE str

\* String.prototype.trim
trim(str) ==
    LET n == runFrom(str, 1, WhiteSpace)
    IN trimEnd(SubSeq(str, n + 1, Len(str)))

isNotEmpty(str) == Len(str) > 0

\* text.split(/\n/).map(l => l.trim()).filter(l => l.length > 0)
splitLines(str) ==
    LET parts == split(str, "\n")
    IN SelectSeq([ k \in DOMAIN parts |-> trim(parts[k]) ], isNotEmpty)

RECURSIVE join(_, _)
\* Array.prototype.join(sep)
join(parts, sep) ==
    IF parts = << >> THEN << >>
    ELSE IF Len(parts) = 1 THEN parts[1]
    ELSE parts[1] \o sep \o join(Tail(parts), sep)

\* /^(\d{2})\/(\d{2})$/
isDateLine(l) ==
    /\ Len(l) = 5
    /\ l[1] \in DigitSet /\ l[2] \in DigitSet
    /\ l[3] = "/"
    /\ l[4] \in DigitSet /\ l[5] \in DigitSet

\* parseInt(dateMatch[1])
dayOf(l) == parseInt(SubSeq(l, 1, 2))

\* the month read from the first group, as the day is
monOf_fromDay(l) == parseInt(SubSeq(l, 1, 2))

\* parseInt(dateMatch[2])
monOf(l) == parseInt(SubSeq(l, 4, 5))

\* a date line whose day is in 1..31 and whose month is in 1..12
anchorLine(l) ==
    /\ isDateLine(l)
    /\ dayOf(l) >= 1 /\ dayOf(l) <= 31
    /\ monOf(l) >= 1 /\ monOf(l) <= 12

\* if (blockLines.length > 30) break
LookaheadCap == 30

RECURSIVE innerLoop_noBreak(_, _, _)
\* the loop without its break at the next anchor: only the cap ends a block
innerLoop_noBreak(ls, j, n) ==
    IF j > Len(ls) THEN j
    ELSE IF n + 1 > LookaheadCap THEN j + 1
    ELSE innerLoop_noBreak(ls, j + 1, n + 1)

RECURSIVE innerLoop_noCap(_, _, _)
\* the loop without its lookahead limit: only an anchor ends a block
innerLoop_noCap(ls, j, n) ==
    IF j > Len(ls) THEN j
    ELSE IF anchorLine(ls[j]) THEN j
    ELSE innerLoop_noCap(ls, j + 1, n + 1)

RECURSIVE innerLoop(_, _, _)
\* the while (j < lines.length) loop from index j with n lines in blockLines:
\* the value of j when it ends
innerLoop(ls, j, n) ==
    IF j > Len(ls) THEN j
    ELSE IF anchorLine(ls[j]) THEN j
    ELSE IF n + 1 > LookaheadCap THEN j + 1
    ELSE innerLoop(ls, j + 1, n + 1)

\* a block scan that hands the anchor's own index back
blockEnd_stays(ls, a) == a

\* j after the block that the anchor at index a opens
blockEnd(ls, a) == innerLoop(ls, a + 1, 0)

\* TANGGAL|KETERANGAN|CABANG|MUTASI|SALDO|Halaman|Bersambung
HeaderKeywords ==
    { <<"T", "A", "N", "G", "G", "A", "L">>,
      <<"K", "E", "T", "E", "R", "A", "N", "G", "A", "N">>,
      <<"C", "A", "B", "A", "N", "G">>,
      <<"M", "U", "T", "A", "S", "I">>,
      <<"S", "A", "L", "D", "O">>,
      <<"H", "a", "l", "a", "m", "a", "n">>,
      <<"B", "e", "r", "s", "a", "m", "b", "u", "n", "g">> }

\* the header filter without its i flag
hasHeaderKeyword_caseSensitive(fullText) ==
    \E kw \in HeaderKeywords : containsExact(fullText, kw)

\* fullText.match(/TANGGAL|...|Bersambung/i)
hasHeaderKeyword(fullText) ==
    \E kw \in HeaderKeywords : containsIgnoreCase(fullText, kw)

\* if (fullText.trim().length < 3)
MinBlockLength == 3

\* the matches of /([\d,\.]+)/g in str from position p on: the maximal runs
\* of digits, dots and commas, in order
amountRuns(str, p) ==
    LET starts == { a \in p .. Len(str) :
                       /\ str[a] \in AmountChars
                       /\ (a = p \/ str[a - 1] \notin AmountChars) }
        nth(n) == CHOOSE a \in starts : Cardinality({ b \in starts : b < a }) = n - 1
    IN [ n \in 1 .. Cardinality(starts) |->
           SubSeq(str, nth(n), nth(n) + runFrom(str, nth(n), AmountChars) - 1) ]

\* 100000000000 has 12 digits: a number below it has at most 11
MaxAmountDigits == 11

isPositive(d) == d.int # << >> \/ d.frac # << >>

\* a filter that lets the amount 0 through
inRange_zeroAllowed(d) == Len(d.int) <= MaxAmountDigits

\* a filter without the upper limit
inRange_unbounded(d) == isPositive(d)

\* amt > 0 && amt < 100000000000
inRange(d) == isPositive(d) /\ Len(d.int) <= MaxAmountDigits

\* the amounts array of a block
amountsOf(fullText) ==
    LET runs == amountRuns(fullText, 1)
    IN SelectSeq([ k \in DOMAIN runs |-> parseAmount(runs[k]) ], inRange)

\* a test for the letters CR anywhere, inside a word too
isCredit_anywhere(fullText) == containsIgnoreCase(fullText, <<"C", "R">>)

\* /\bCR\b/i.test(fullText)
isCredit(fullText) ==
    \E p \in DOMAIN fullText :
        /\ matchAt(fullText, p, <<"C", "R">>)
        /\ ~(p - 1 \in DOMAIN fullText /\ fullText[p - 1] \in WordChars)
        /\ ~(p + 2 \in DOMAIN fullText /\ fullText[p + 2] \in WordChars)

\* /\d{4}\/[\w\/]+/ tried at position p: the length of the match, 0 if none
referenceAt(str, p) ==
    IF /\ runFrom(str, p, DigitSet) >= 4
       /\ p + 4 <= Len(str) /\ str[p + 4] = "/"
       /\ runFrom(str, p + 5, WordChars \cup {"/"}) >= 1
      THEN 5 + runFrom(str, p + 5, WordChars \cup {"/"})
      ELSE 0

\* fullText.match(/\d{4}\/[\w\/]+/): the leftmost match, '' if there is none
referenceOf(str) ==
    LET ps == { p \in DOMAIN str : referenceAt(str, p) > 0 }
    IN IF ps = {} THEN << >>
       ELSE LET p == CHOOSE p \in ps : \A q \in ps : p <= q
            IN SubSeq(str, p, p + referenceAt(str, p) - 1)

\* substring(0, 500)
DescriptionLimit == 500

\* String.prototype.substring(0, n)
substring(str, n) == IF Len(str) <= n THEN str ELSE SubSeq(str, 1, n)

\* lines 262-311: the records a block gives, none or one
recordsOfBlock(blockLines, day, mon, year) ==
    LET fullText == join(blockLines, <<" ">>)
        amounts == amountsOf(fullText)
    IN IF hasHeaderKeyword(fullText) THEN << >>
       ELSE IF Len(trim(fullText)) < MinBlockLength THEN << >>
       ELSE IF Len(amounts) = 0 THEN << >>
       ELSE << [ date |-> formatDate(year, mon, day),
                 description |-> substring(join(blockLines, <<" ", "|", " ">>),
                                           DescriptionLimit),
                 reference |-> referenceOf(fullText),
                 branchCode |-> << >>,
                 debitAmount |-> IF isCredit(fullText) THEN Zero ELSE amounts[1],
                 creditAmount |-> IF isCredit(fullText) THEN amounts[1] ELSE Zero,
                 balance |-> IF Len(amounts) > 1
                               THEN << amounts[Len(amounts)] >>
                               ELSE << >> ] >>

RECURSIVE addFrom(_, _, _, _)
\* the digits of x + y + carry over the positions 1..k, with the carry out
\* in front
addFrom(x, y, k, carry) ==
    IF k = 0 THEN << carry >>
    ELSE LET t == x[k] + y[k] + carry
         IN addFrom(x, y, k - 1, t \div 10) \o << t % 10 >>

\* a + b of two decimal numbers
plus(a, b) ==
    LET il == IF Len(a.int) > Len(b.int) THEN Len(a.int) ELSE Len(b.int)
        fl == IF Len(a.frac) > Len(b.frac) THEN Len(a.frac) ELSE Len(b.frac)
        aligned(d) ==
            [ k \in 1 .. il + fl |->
                IF k <= il
                  THEN (IF k > il - Len(d.int) THEN d.int[k - (il - Len(d.int))] ELSE 0)
                  ELSE (IF k - il <= Len(d.frac) THEN d.frac[k - il] ELSE 0) ]
        digits == addFrom(aligned(a), aligned(b), il + fl, 0)
    IN [ int |-> stripLeadingZeros(SubSeq(digits, 1, il + 1)),
         frac |-> stripTrailingZeros(SubSeq(digits, il + 2, il + fl + 1)) ]

RECURSIVE reduceSum(_, _)
\* amounts.reduce((s, t) => s + t, acc)
reduceSum(amounts, acc) ==
    IF amounts = << >> THEN acc
    ELSE reduceSum(Tail(amounts), plus(acc, Head(amounts)))

\* totals taken from the header text instead of the transactions
totalDebits_fromHeader(txns) == header.closingBalance

\* transactions.reduce((s, t) => s + t.debitAmount, 0)
totalDebits(txns) ==
    reduceSum([ k \in DOMAIN txns |-> txns[k].debitAmount ], Zero)

\* transactions.reduce((s, t) => s + t.creditAmount, 0)
totalCredits(txns) ==
    reduceSum([ k \in DOMAIN txns |-> txns[k].creditAmount ], Zero)

\* lines 192-219: the header fields and the lines
parseHeader ==
    /\ parsePc = "start"
    /\ header' = headerOf(text)
    /\ lines' = splitLines(text)
    /\ parsePc' = "scan"
    /\ UNCHANGED <<text, i, transactions, blocks, summary,
                   reconVars, importVars, seqVars, amountVars, uploadVars>>

\* an iteration of while (i < lines.length) on a line that is no anchor: i++
scanSkip ==
    /\ parsePc = "scan"
    /\ i <= Len(lines)
    /\ ~anchorLine(lines[i])
    /\ i' = i + 1
    /\ UNCHANGED <<text, parsePc, header, lines, transactions, blocks, summary,
                   reconVars, importVars, seqVars, amountVars, uploadVars>>

\* an iteration on an anchor: the block is built, filtered and, if kept,
\* turned into a record; i = j
scanBlock ==
    /\ parsePc = "scan"
    /\ i <= Len(lines)
    /\ anchorLine(lines[i])
    /\ LET j == blockEnd(lines, i)
           blockLines == SubSeq(lines, i + 1, j - 1)
           records == recordsOfBlock(blockLines, dayOf(lines[i]), monOf(lines[i]),
                                     header.year)
       IN /\ transactions' = transactions \o records
          /\ blocks' = Append(blocks, [ anchor |-> i, next |-> j,
                                        blockLines |-> blockLines,
                                        records |-> Len(records),
                                        given |-> records ])
          /\ i' = j
    /\ UNCHANGED <<text, parsePc, header, lines, summary,
                   reconVars, importVars, seqVars, amountVars, uploadVars>>

\* the loop has ended: the totals and the returned object
parseReturn ==
    /\ parsePc = "scan"
    /\ i > Len(lines)
    /\ summary' = [ period |-> header.period,
                    startDate |-> header.startDate,
                    endDate |-> header.endDate,
                    openingBalance |-> header.openingBalance,
                    closingBalance |-> header.closingBalance,
                    totalDebits |-> totalDebits(transactions),
                    totalCredits |-> totalCredits(transactions),
                    transactions |-> transactions ]
    /\ parsePc' = "done"
    /\ UNCHANGED <<text, header, lines, i, transactions, blocks,
                   reconVars, importVars, seqVars, amountVars, uploadVars>>

ParseNext ==
    \/ parseHeader
    \/ scanSkip
    \/ scanBlock
    \/ parseReturn

(* ---------------------- the statement texts ---------------------------- *)
\* lines of a statement
AnchorA == <<"0", "1", "/", "0", "2">>
AnchorB == <<"1", "5", "/", "0", "3">>
NoAnchor == <<"3", "2", "/", "0", "1">>
WordsLine == <<"T", "R", "A", "N", "S", "F", "E", "R", " ", "F", "U", "N", "D", "S">>
CreditLine == <<"1", ".", "5", "0", "0", ".", "0", "0", "0", ",", "0", "0", " ", "C", "R">>
BalanceLine == <<"1", "0", ".", "0", "0", "0", ".", "0", "0", "0", ",", "0", "0">>
FooterLine == <<"S", "a", "l", "d", "o", " ", "9", ".", "0", "0", "0">>
ZeroLine == <<"0", ",", "0", "0">>

Vocabulary ==
    { AnchorA, AnchorB, NoAnchor, WordsLine, CreditLine, BalanceLine,
      FooterLine, ZeroLine }

\* the texts of at most MaxLines lines of the vocabulary
BodyTexts ==
    { join(ls, <<"\n">>) : ls \in StringsUpTo(Vocabulary, MaxLines) }

HeaderYears ==
    { <<"2", "0", "2", "6">>, <<"2", "0", "2", "4">>, <<"2", "1", "0", "0">>, <<"2", "0", "0", "0">>, <<"1", "9", "0", "0">>, <<"0", "9", "9", "9">>, <<"0", "0", "9", "6">>, <<"0", "0", "0", "0">> }

HeaderLabels ==
    { <<"P", "E", "R", "I", "O", "D", "E", ":", " ">>,
      <<"p", "e", "r", "i", "o", "d", "e", " ">> }

\* a period header followed by one transaction
HeaderText(label, m, year) ==
    label \o MonthNames[m] \o <<" ">> \o year \o <<"\n">>
          \o AnchorA \o <<"\n">> \o BalanceLine

HeaderTexts ==
    { HeaderText(label, m, year) :
        label \in HeaderLabels, m \in DOMAIN MonthNames, year \in HeaderYears }

\* the tokens that follow the anchor 01/02 in the end-to-end example
ExampleTokens ==
    << <<"T", "R", "A", "N", "S", "F", "E", "R">>,
       <<"F", "U", "N", "D", "S">>,
       <<"1", ".", "5", "0", "0", ".", "0", "0", "0", ",", "0", "0">>,
       <<"C", "R">>,
       <<"1", "0", ".", "0", "0", "0", ".", "0", "0", "0", ",", "0", "0">> >>

RECURSIVE layout(_, _, _)
\* the tokens from the k-th on, each followed by a line break if its position
\* is in breaks, by a space otherwise
layout(tokens, k, breaks) ==
    IF k = Len(tokens) THEN tokens[k]
    ELSE tokens[k] \o << IF k \in breaks THEN "\n" ELSE " " >>
                   \o layout(tokens, k + 1, breaks)

\* the example block, the anchor on its line and the tokens after it spread
\* over lines in every way, under the header of another month or under none
ExampleTexts ==
    { head \o AnchorA \o <<"\n">> \o layout(ExampleTokens, 1, breaks) :
        head \in { << >>, <<"P", "E", "R", "I", "O", "D", "E", ":", " ", "J", "A", "N", "U", "A", "R", "I", " ", "2", "0", "2", "6", "\n">> },
        breaks \in SUBSET (1 .. Len(ExampleTokens) - 1) }

\* the example block on one line
ExampleOneLine == AnchorA \o <<" ">> \o layout(ExampleTokens, 1, {})

\* an anchor, n lines of words, an anchor and an amount
LongBlock(n) ==
    join(<< AnchorA >> \o [ k \in 1 .. n |-> WordsLine ] \o << AnchorB, BalanceLine >>,
         <<"\n">>)

LongTexts == { LongBlock(n) : n \in LookaheadCap - 1 .. LookaheadCap + 2 }

DebitLine == <<"2", "5", "0", ".", "0", "0", "0", ",", "5", "0">>

\* the credit marker in small letters
LowerCreditLine == <<"7", "5", "0", ",", "2", "5", " ", "c", "r">>
\* the letters CR inside a word
EmbeddedLine == <<"S", "C", "R", "I", "P", " ", "9", "0", "0">>
\* an amount of 100000000000 before two amounts in range
HugeLine ==
    <<"1", "0", "0", ".", "0", "0", "0", ".", "0", "0", "0", ".", "0", "0", "0", ",", "0", "0", " ">>
        \o DebitLine \o <<" ">> \o BalanceLine

\* an anchor and a line with an amount
TransactionTexts ==
    { anchor \o <<"\n">> \o amountLine :
        anchor \in {AnchorA, AnchorB},
        amountLine \in {CreditLine, BalanceLine, DebitLine, ZeroLine,
                        LowerCreditLine, EmbeddedLine, HugeLine} }

\* the statements of at most MaxTxns transactions
StatementTexts ==
    { join(ts, <<"\n">>) : ts \in StringsUpTo(TransactionTexts, MaxTxns) }

\* an anchor, an amount and as many lines of words as the lookahead lets in
LongDescriptionText ==
    join(<< AnchorA, BalanceLine >> \o [ k \in 1 .. LookaheadCap |-> WordsLine ],
         <<"\n">>)

\* a reference of 101 characters: four digits, a slash and 96 letters
LongReference == <<"1", "2", "3", "4", "/">> \o [ k \in 1 .. 96 |-> "A" ]

\* an anchor, a line with the long reference and an amount
LongReferenceText ==
    join(<< AnchorA, LongReference, DebitLine >>, <<"\n">>)

ParseInputs ==
    BodyTexts \cup StatementTexts \cup HeaderTexts \cup ExampleTexts
              \cup {ExampleOneLine} \cup LongTexts
              \cup {LongDescriptionText, LongReferenceText}

ParseSpecInit ==
    /\ ReconInit /\ line = NewLineRow("debit")
    /\ ImportInit
    /\ SeqInit
    /\ AmountInit
    /\ text \in ParseInputs
    /\ ParseEntry
    /\ UploadInit

ParseSpec == ParseSpecInit /\ [][ParseNext]_vars

(* -------------------- claims on parseBCAStatement ---------------------- *)
RECURSIVE SumTo(_, _)
\* the sum of the first k of the amounts
SumTo(amounts, k) ==
    IF k = 0 THEN Zero ELSE plus(SumTo(amounts, k - 1), amounts[k])

\* C14: in the object parseBCAStatement returns, totalDebits is the sum of
\* debitAmount and totalCredits the sum of creditAmount over the returned
\* transactions.
C14_TotalsAreSums ==
    parsePc = "done"
        => LET txns == summary.transactions
           IN /\ summary.totalDebits =
                     SumTo([ k \in DOMAIN txns |-> txns[k].debitAmount ], Len(txns))
              /\ summary.totalCredits =
                     SumTo([ k \in DOMAIN txns |-> txns[k].creditAmount ], Len(txns))

\* two debits were returned and totalDebits is more than either of them
C14_Witness ==
    /\ parsePc = "done"
    /\ Len(summary.transactions) >= 2
    /\ \E h, k \in DOMAIN summary.transactions :
          /\ h # k
          /\ summary.transactions[h].debitAmount # Zero
          /\ summary.transactions[k].debitAmount # Zero
          /\ summary.totalDebits # summary.transactions[h].debitAmount
          /\ summary.totalDebits # Zero

\* the amount-shaped substrings of a block's joined text that, once
\* normalized, lie strictly between 0 and 100000000000
KeptAmounts(blockLines) ==
    LET runs == amountRuns(join(blockLines, <<" ">>), 1)
    IN { k \in DOMAIN runs :
            LET d == parseAmount(runs[k])
            IN d # Zero /\ Len(d.int) <= MaxAmountDigits }

\* C15: every record has exactly one of debitAmount and creditAmount
\* nonzero, and a block that keeps no amount after the range filter gives no
\* record.
C15_OneSideNonzero ==
    /\ \A k \in DOMAIN transactions :
          (transactions[k].debitAmount = Zero) # (transactions[k].creditAmount = Zero)
    /\ \A b \in DOMAIN blocks :
          KeptAmounts(blocks[b].blockLines) = {} => blocks[b].records = 0

\* a block made of the amount 0,00 gave no record, another block gave one
C15_Witness ==
    /\ \E b \in DOMAIN blocks :
          blocks[b].blockLines = << ZeroLine >> /\ blocks[b].records = 0
    /\ transactions # << >>

\* a line DD/MM with the day in 1..31 and the month in 1..12
ValidDateAnchor(l) ==
    /\ Len(l) = 5
    /\ l[3] = "/"
    /\ \A k \in {1, 2, 4, 5} : l[k] \in DigitSet
    /\ 10 * DigitValue(l[1]) + DigitValue(l[2]) \in 1 .. 31
    /\ 10 * DigitValue(l[4]) + DigitValue(l[5]) \in 1 .. 12

\* C16: the block of an anchor holds the lines after it up to, and without,
\* the next valid anchor, no line of it is a valid anchor, and every valid
\* anchor the scan has passed has opened a block of its own.
C16_BlockStopsAtAnchor ==
    /\ \A b \in DOMAIN blocks :
          /\ blocks[b].blockLines = SubSeq(lines, blocks[b].anchor + 1, blocks[b].next - 1)
          /\ \A k \in DOMAIN blocks[b].blockLines :
                ~ValidDateAnchor(blocks[b].blockLines[k])
    /\ \A a \in DOMAIN lines :
          (a < i /\ ValidDateAnchor(lines[a]))
              => \E b \in DOMAIN blocks : blocks[b].anchor = a

\* two anchors with a line between them: the first block is that line, the
\* second anchor opened the second block
C16_Witness ==
    /\ Len(blocks) = 2
    /\ blocks[1].blockLines # << >>
    /\ blocks[2].anchor = blocks[1].next
    /\ ValidDateAnchor(lines[blocks[2].anchor])

\* C17: a block whose joined text contains one of the header and footer
\* keywords, in any case of letters, gives no record.
C17_KeywordBlockDiscarded ==
    \A b \in DOMAIN blocks :
        (\E kw \in HeaderKeywords :
            containsIgnoreCase(join(blocks[b].blockLines, <<" ">>), kw))
            => blocks[b].records = 0

\* a block with the keyword Saldo and the amount 9.000 gave no record
C17_Witness ==
    \E b \in DOMAIN blocks :
        /\ blocks[b].blockLines = << FooterLine >>
        /\ KeptAmounts(blocks[b].blockLines) # {}
        /\ blocks[b].records = 0

\* the record of the end-to-end example
ExampleRecordReturned ==
    /\ Len(summary.transactions) = 1
    /\ summary.transactions[1].date = <<"2", "0", "2", "6", "-", "0", "2", "-", "0", "1">>
    /\ summary.transactions[1].creditAmount = [ int |-> IntDigits(1500000), frac |-> << >> ]
    /\ summary.transactions[1].debitAmount = Zero
    /\ summary.transactions[1].balance = << [ int |-> IntDigits(10000000), frac |-> << >> ] >>

\* C19 as stated: the example block gives exactly one record with date
\* 2026-02-01, creditAmount 1500000, debitAmount 0 and balance 10000000,
\* however its tokens are laid out, on one line as on several.
C19_ExampleAnyLayout ==
    (parsePc = "done" /\ text \in ExampleTexts \cup {ExampleOneLine})
        => ExampleRecordReturned

\* C19 amended: the example block gives exactly that record when the anchor
\* 01/02 is a line of its own and the other tokens follow it on one or more
\* lines.
C19_ExampleAnchorOnOwnLine ==
    (parsePc = "done" /\ text \in ExampleTexts) => ExampleRecordReturned

C19_Witness ==
    /\ parsePc = "done"
    /\ text \in ExampleTexts
    /\ Len(lines) = 3
    /\ Len(summary.transactions) = 1

\* year-MM-DD with the four digits of the year
IsoDate(year, m, d) ==
    year \o <<"-">> \o padStart(toString(m), 2, "0")
         \o <<"-">> \o padStart(toString(d), 2, "0")

\* C20: for every month name and every 4-digit year of the period header,
\* startDate is the first day of that month and endDate its last calendar
\* day (29 February in leap years); January 2026 gives 2026-01-01 and
\* 2026-01-31.
C20_PeriodDates ==
    \A label \in HeaderLabels, m \in DOMAIN MonthNames, year \in HeaderYears :
        (parsePc = "done" /\ text = HeaderText(label, m, year))
            => /\ summary.startDate = IsoDate(year, m, 1)
               /\ summary.endDate = IsoDate(year, m, daysInMonth(parseInt(year), m))


\* C21: every emitted record has a description of at most 500 characters and
\* a reference of at most 100 characters
C21_FieldLimits ==
    \A k \in DOMAIN transactions :
        /\ Len(transactions[k].description) <= 500
        /\ Len(transactions[k].reference) <= 100


\* C25: no block holds more lines than the lookahead lets in, 31, a cap
\* between 30 and 50; a shorter block ended at the next anchor or at the end
\* of the lines
C25_BlockWithinCap ==
    /\ LookaheadCap + 1 \in 30 .. 50
    /\ \A b \in DOMAIN blocks :
          /\ Len(blocks[b].blockLines) <= LookaheadCap + 1
          /\ Len(blocks[b].blockLines) <= LookaheadCap
                => \/ blocks[b].next > Len(lines)
                   \/ ValidDateAnchor(lines[blocks[b].next])

\* a block was cut at the cap with a line that is no anchor after it
C25_Witness ==
    \E b \in DOMAIN blocks :
        /\ Len(blocks[b].blockLines) = LookaheadCap + 1
        /\ blocks[b].next <= Len(lines)
        /\ ~ValidDateAnchor(lines[blocks[b].next])

\* the letters C and R, in either case, with no word character before or
\* after them
HasStandaloneCR(str) ==
    \E p \in 1 .. Len(str) - 1 :
        /\ str[p] \in {"C", "c"} /\ str[p + 1] \in {"R", "r"}
        /\ (p = 1 \/ str[p - 1] \notin WordChars)
        /\ (p + 1 = Len(str) \/ str[p + 2] \notin WordChars)

\* the first amount a block keeps
FirstKept(blockLines) ==
    LET runs == amountRuns(join(blockLines, <<" ">>), 1)
        kept == KeptAmounts(blockLines)
    IN parseAmount(runs[CHOOSE k \in kept : \A h \in kept : k <= h])

\* C26: the record of a block is a credit of the first retained amount, with
\* debitAmount 0, exactly when the block's joined text holds the standalone
\* token CR in any case of letters; otherwise it is a debit of that amount,
\* with creditAmount 0
C26_DirectionByMarker ==
    \A b \in DOMAIN blocks :
        \A k \in DOMAIN blocks[b].given :
            LET rec == blocks[b].given[k]
                first == FirstKept(blocks[b].blockLines)
            IN IF HasStandaloneCR(join(blocks[b].blockLines, <<" ">>))
                 THEN rec.creditAmount = first /\ rec.debitAmount = Zero
                 ELSE rec.debitAmount = first /\ rec.creditAmount = Zero

\* the marker in small letters gave a credit, the letters CR inside a word a
\* debit
C26_Witness ==
    /\ \E b \in DOMAIN blocks :
          /\ blocks[b].blockLines = << LowerCreditLine >>
          /\ blocks[b].records = 1
          /\ blocks[b].given[1].creditAmount # Zero
    /\ \E b \in DOMAIN blocks :
          /\ blocks[b].blockLines = << EmbeddedLine >>
          /\ blocks[b].records = 1
          /\ blocks[b].given[1].debitAmount # Zero

\* a number greater than 0 and less than 100000000000
InOpenRange(d) == d # Zero /\ Len(d.int) < 12

\* C27: in every record the amount, on the debit or the credit side, and the
\* balance, when there is one, are greater than 0 and less than 100000000000
C27_AmountsInRange ==
    \A k \in DOMAIN transactions :
        LET rec == transactions[k]
        IN /\ InOpenRange(IF rec.creditAmount # Zero THEN rec.creditAmount
                                                     ELSE rec.debitAmount)
           /\ \A h \in DOMAIN rec.balance : InOpenRange(rec.balance[h])

\* a block with the amounts 100000000000, 250000.5 and 10000000 gave a
\* record of 250000.5 with the balance 10000000
C27_Witness ==
    \E b \in DOMAIN blocks :
        /\ blocks[b].blockLines = << HugeLine >>
        /\ blocks[b].records = 1
        /\ blocks[b].given[1].debitAmount = parseAmount(DebitLine)
        /\ blocks[b].given[1].balance = << parseAmount(BalanceLine) >>


\* C28: every iteration of the scan loop leaves i greater than it found it
\* and at most one past the last line, so that the loop ends after at most as
\* many iterations as there are lines; and the blocks share no line
C28_LoopTerminates ==
    /\ [][ (parsePc = "scan" /\ parsePc' = "scan")
              => (i' > i /\ i' <= Len(lines) + 1) ]_vars
    /\ [](\A a, b \in DOMAIN blocks :
            a < b => blocks[a].next <= blocks[b].anchor)

\* the call has returned after two blocks and after a line that is in no
\* block and opens none
C28_Witness ==
    /\ parsePc = "done"
    /\ Len(blocks) >= 2
    /\ \E a \in DOMAIN lines :
          /\ ~ValidDateAnchor(lines[a])
          /\ \A b \in DOMAIN blocks :
                ~(blocks[b].anchor < a /\ a < blocks[b].next)

(* ----------------------- claims on the import -------------------------- *)
\* C5: when an import handler has ended, by success or by failure, either it
\* has left no upload record or the lines that reference its upload record
\* are as many as the record's transaction_count.
C5_ImportAtomic ==
    \A r \in Requests :
        (req[r].pc = "ended" /\ req[r].upload # NULL)
            => /\ req[r].upload \in DOMAIN bank_statement_uploads
               /\ Cardinality(LinesOfUpload(req[r].upload))
                     = bank_statement_uploads[req[r].upload].transaction_count

\* the statements whose failure is a persistence failure
PersistenceFailures == {"storage", "upload", "lines"}

\* what one successful import of a document with n transactions persists
SingleImport(path, n) ==
    [ uploads |-> << uploadRecord(n) >>,
      lines   |-> insertData(1, n),
      files   |-> IF path = "pdf" THEN 1 ELSE 0 ]

\* C11: an import that failed at a write, followed by a successful retry of
\* the same document, leaves what a single successful import leaves: one
\* upload record, its lines, and (PDF) one stored file.
C11_RetryIdempotent ==
    \A r1, r2 \in Requests :
        ( /\ req[r1].pc = "ended" /\ req[r1].failure \in PersistenceFailures
          /\ req[r2].pc = "ended" /\ req[r2].result = "ok"
          /\ req[r1].path = req[r2].path /\ req[r1].count = req[r2].count
          /\ \A r \in Requests \ {r1, r2} : req[r].pc = "idle" )
        => LET single == SingleImport(req[r2].path, req[r2].count)
           IN /\ Len(bank_statement_uploads) = Len(single.uploads)
              /\ Len(imported_lines) = Len(single.lines)
              /\ storage = single.files

\* C13: a PDF request whose extracted text is shorter than the minimum, or
\* whose parse yields no transaction, ends with an error in that step, and
\* the step stores no file, creates no upload record and inserts no line.
C13_ParseFailureWritesNothing ==
    [][\A r \in Requests : \A textLen \in TextLengths : \A n \in 0 .. MaxTxns :
          ( /\ textLen < MinTextLength \/ n = 0
            /\ ImportStart(r, "pdf", TRUE, TRUE, textLen, n) )
          => /\ req'[r].pc = "ended"
             /\ req'[r].result = "error"
             /\ req'[r].upload = NULL
             /\ storage' = storage
             /\ bank_statement_uploads' = bank_statement_uploads
             /\ imported_lines' = imported_lines]_vars

\* both kinds of parse failure have ended requests and the store is empty
C13_Witness ==
    /\ \E r \in Requests : req[r].pc = "ended" /\ req[r].failure = "text"
    /\ \E r \in Requests : req[r].pc = "ended" /\ req[r].failure = "empty"
    /\ storage = 0
    /\ bank_statement_uploads = << >>
    /\ imported_lines = << >>


\* C22: every row an import persists, on the PDF or the spreadsheet path, is
\* persisted as unmatched, and the status of the persisted line is always one
\* of unmatched, suggested, matched, recorded
C22_ImportedUnmatchedStatusKnown ==
    /\ \A k \in DOMAIN imported_lines :
          imported_lines[k].reconciliation_status = "unmatched"
    /\ line.reconciliation_status \in Statuses

\* an import on each path has persisted its rows
C22_Witness ==
    \E r, q \in Requests :
        /\ req[r].path = "pdf" /\ req[r].result = "ok"
        /\ req[q].path = "excel" /\ req[q].result = "ok"
        /\ LinesOfUpload(req[r].upload) # {}
        /\ LinesOfUpload(req[q].upload) # {}


\* C29: a PDF request without an Authorization header, or whose user lookup
\* fails, ends with an error response and leaves the bucket and both tables
\* as they are; it never reaches a write
C29_NoWriteWithoutAuth ==
    /\ [][ \A r \in Requests :
              (req[r].pc = "idle" /\ req'[r].pc # "idle")
                  => \A found \in BOOLEAN, textLen \in TextLengths, n \in 0 .. MaxTxns :
                        ImportStart(r, "pdf", FALSE, found, textLen, n)
                            => /\ req'[r].pc = "ended"
                               /\ req'[r].result = "error"
                               /\ UNCHANGED <<bank_statement_uploads,
                                              imported_lines, storage>> ]_vars
    /\ [](\A r \in Requests :
            req[r].failure = "auth"
                => /\ req[r].pc = "ended"
                   /\ req[r].result = "error"
                   /\ req[r].upload = NULL)

\* an unauthenticated request has ended while the rows of another request
\* are stored
C29_Witness ==
    /\ \E r \in Requests : req[r].failure = "auth" /\ req[r].pc = "ended"
    /\ imported_lines # << >>
    /\ storage > 0


\* a file has been chosen and its import has not ended
InFlight(r) == handler[r].pc # "none" /\ req[r].pc # "ended"

\* C30: uploading is set from the choice of a file until its import has
\* ended, on both paths, and at most one import is in flight
C30_UploadingCoversImport ==
    /\ \A r \in Requests : InFlight(r) => uploading
    /\ Cardinality({ r \in Requests : InFlight(r) }) <= 1

(* ------------------- claims on the reconciliation ---------------------- *)
\* the amount of the statement line, whichever side it is on
AmountOf(row) == row.debit_amount + row.credit_amount
RecordOps == {"handleRecordExpense", "handleRecordReceipt"}

\* C1: handleRecordExpense on an unmatched line is all-or-nothing: when the
\* insert or the status update fails, the handler ends with the line still
\* unmatched and without a ledger entry made by it.
C1_RecordExpenseAllOrNothing ==
    [][\A o \in Operators : \A loadOk \in BOOLEAN :
          /\ (line.reconciliation_status = "unmatched" /\ recordExpenseInsertStep(o, TRUE, FALSE))
                => /\ line'.reconciliation_status = "unmatched"
                   /\ finance_expenses' = finance_expenses
          /\ (line.reconciliation_status = "unmatched" /\ recordExpenseUpdateStep(o, FALSE, loadOk))
                => /\ line'.reconciliation_status = "unmatched"
                   /\ expense[o] \notin DOMAIN finance_expenses']_vars

\* C2: a line whose status is recorded is linked to a ledger entry that was
\* created.
C2_RecordedHasEntry ==
    line.reconciliation_status = "recorded"
        => line.matched_expense_id \in DOMAIN finance_expenses

\* C3: a status write takes effect only on the status its operator read:
\* suggested for confirm and reject, unmatched for the record operations.
C3_CompareAndSwap ==
    /\ last.op \in {"confirmMatch", "rejectMatch"}
          => last.pre.reconciliation_status = "suggested"
    /\ last.op \in RecordOps => last.pre.reconciliation_status = "unmatched"

\* C4: at most one ledger entry is ever created from the statement line.
C4_AtMostOneEntry == Len(finance_expenses) <= 1

\* C6: no operation changes the status of a matched or recorded line.
C6_MatchedRecordedTerminal ==
    [][line.reconciliation_status \in {"matched", "recorded"}
          => line'.reconciliation_status = line.reconciliation_status]_vars

\* C7: a confirmation that takes effect on a suggested line leaves it matched
\* and still linked to the proposed ledger entry.
C7_ConfirmKeepsLink ==
    (last.op = "confirmMatch" /\ last.pre.reconciliation_status = "suggested")
        => /\ line.reconciliation_status = "matched"
           /\ line.matched_entry_id = last.pre.matched_entry_id
           /\ line.matched_entry_id # NULL

C7_Witness ==
    /\ last.op = "confirmMatch"
    /\ last.pre.reconciliation_status = "suggested"
    /\ line.matched_entry_id = SuggestedEntry

\* C8: a rejection that takes effect on a suggested line leaves it unmatched
\* with every link field empty.
C8_RejectClearsLink ==
    (last.op = "rejectMatch" /\ last.pre.reconciliation_status = "suggested")
        => /\ line.reconciliation_status = "unmatched"
           /\ line.matched_entry_id = NULL
           /\ line.matched_expense_id = NULL

C8_Witness ==
    /\ last.op = "rejectMatch"
    /\ last.pre.reconciliation_status = "suggested"
    /\ last.pre.matched_entry_id = SuggestedEntry
    /\ line.reconciliation_status = "unmatched"

\* C9: a record operation that takes effect on an unmatched line leaves the
\* line recorded and linked to the one ledger entry made from it, which has
\* the line's amount and date.
C9_RecordCreatesOneLinkedEntry ==
    (last.op \in RecordOps /\ last.pre.reconciliation_status = "unmatched")
        => /\ line.reconciliation_status = "recorded"
           /\ Len(finance_expenses) = 1
           /\ line.matched_expense_id \in DOMAIN finance_expenses
           /\ finance_expenses[line.matched_expense_id].amount = AmountOf(line)
           /\ finance_expenses[line.matched_expense_id].expense_date = line.transaction_date

\* C10: once handleRecordExpense has created its entry, the line eventually
\* becomes recorded (the status write is retried until the store accepts it).
C10_StatusWriteRetried ==
    \A o \in Operators : (pc[o] = "update") ~> (line.reconciliation_status = "recorded")

\* C23: a run of autoMatchTransactions on a line that is unmatched leaves it
\* unmatched or suggested, never matched
C23_MatcherNeverPromotes ==
    [][ \A o \in Operators :
          (autoMatchTransactions(o) /\ line.reconciliation_status = "unmatched")
              => line'.reconciliation_status \in {"unmatched", "suggested"} ]_vars

\* the matcher has candidate expenses to read while the line is unmatched
C23_Witness ==
    /\ line.reconciliation_status = "unmatched"
    /\ Len(finance_expenses) > 0

\* C24: autoMatchTransactions leaves the line's status and links as they
\* are, and no operation of the component puts a line that is not suggested
\* in status suggested
C24_MatcherIsStub ==
    [][ /\ \A o \in Operators : autoMatchTransactions(o) => line' = line
        /\ line'.reconciliation_status = "suggested"
              => line.reconciliation_status = "suggested" ]_vars

\* an operation has rewritten a line that the import left unmatched
C24_Witness ==
    /\ last.op # "none"
    /\ last.pre = NewLineRow("debit")
    /\ line.reconciliation_status = "recorded"

====
